---- MODULE Spec2Model ----
(***************************************************************************)
(* Order lifecycle of the e-learn store: the two HTTP applications of the  *)
(* repository (src/main.py, the JWT-protected synchronous variant, and     *)
(* src/backend/main.py, the asynchronous variant with e-mail) over one     *)
(* "order" collection.                                                     *)
(***************************************************************************)
EXTENDS Integers, Sequences, FiniteSets, TLC

(* ----------------------------- bounds --------------------------------- *)
MaxOrders == 2
MaxRequests == 3

\* How many minutes past a token's lifetime the clock of AuthSpec runs.
MaxLate == 2

\* create_jwt: ttl_minutes
ttl_minutes == 120

\* Request slots: how many handlers may be in flight together.
Procs == {1, 2}

\* The instants the wall clock shows; a token may expire after the last one.
Clock == {0, 1}
LastInstant == CHOOSE t \in Clock : \A u \in Clock : u <= t

(* --------------------------- value encoding --------------------------- *)
\* Python None / an absent JSON key, for string-valued fields.
None == "None"

\* Python truthiness of an Optional[str].
Truthy(s) == s \notin {None, ""}

\* JSON values a gateway may send as the "paid" key, by their literal text.
PaidInputs == {None, "false", "true"}
JsonTruthy(v) == v \notin {None, "false", "0", "", "null"}

Terminal == {"verified", "rejected"}
StatusDomain == {"pending", "submitted", "queued", "verified", "rejected"}

(* ------------------------------ inputs -------------------------------- *)
ProofInputs == {None, "", "img"}
StatusInputs == {None, "", "shipped"}
NoteInputs == {None, "", "n1"}
ActionInputs == {"verify", "reject", "bogus"}
GatewayStatusInputs == {None, "PAID", "FAILED"}
WellFormedIds == {ToString(i) : i \in 1..MaxOrders}
OrderIdInputs == {None, "", "zz"} \cup WellFormedIds

\* Bodies of POST /api/orders: a well-formed order with every proof image,
\* with every status (read by the backend only), and one ill-formed body per
\* validated field.
CreateInputs ==
    [email : {"a@b.com"}, plan : {"ebook"}, payment_method : {"DANA"},
     proof_image : ProofInputs, status : {None}]
    \cup
    [email : {"a@b.com"}, plan : {"ebook"}, payment_method : {"DANA"},
     proof_image : {None}, status : StatusInputs]
    \cup
    {[email |-> "not-an-email", plan |-> "ebook", payment_method |-> "DANA",
      proof_image |-> None, status |-> None],
     [email |-> "a@b.com", plan |-> "bogus", payment_method |-> "CASH",
      proof_image |-> None, status |-> None]}

\* Bearer credentials: none, an unverifiable string, or a token signed with
\* JWT_SECRET carrying role and exp.
NoCreds == [kind |-> "none", role |-> None, exp |-> 0]
AdminToken == [kind |-> "jwt", role |-> "admin", exp |-> LastInstant + 1]
CredInputs ==
    {NoCreds,
     [kind |-> "malformed", role |-> None, exp |-> 0],
     [kind |-> "jwt", role |-> "admin", exp |-> 1],
     [kind |-> "jwt", role |-> "user", exp |-> LastInstant + 1],
     AdminToken}

\* Bodies of POST /api/orders/verify with the credential presented: both
\* decisions on every well-formed id, and around one of them every
\* credential, every other order_id, every other action and every note.
VerifyInputs ==
    [creds : {AdminToken}, order_id : WellFormedIds,
     action : {"verify", "reject"}, note : {None}]
    \cup [creds : CredInputs, order_id : {"1"}, action : {"verify"}, note : {None}]
    \cup [creds : {AdminToken}, order_id : OrderIdInputs \ {None},
          action : {"verify"}, note : {None}]
    \cup [creds : {AdminToken}, order_id : {"1"}, action : ActionInputs,
          note : {None}]
    \cup [creds : {AdminToken}, order_id : {"1"}, action : {"verify"},
          note : NoteInputs]

\* Bodies of POST /api/webhook/payment: an event with paid true and one with
\* no paid key for every order_id, and for one order paid false with a
\* settled and with a failed gateway status.
WebhookInputs ==
    [order_id : OrderIdInputs, paid : PaidInputs \ {"false"}, gstatus : {None}]
    \cup [order_id : {"1"}, paid : {"false"},
          gstatus : GatewayStatusInputs \ {None}]

(* ------------------------- request validation ------------------------- *)
\* pydantic EmailStr
IsEmail(e) == e = "a@b.com"

\* main.py OrderCreate: Literal plan / payment_method
OrderCreateValid(email, plan, payment_method) ==
    /\ IsEmail(email)
    /\ plan \in {"ebook", "kelas", "template"}
    /\ payment_method \in {"DANA", "OVO", "GOPAY", "BRI"}

\* backend schemas.Order: plan and payment_method are free strings
OrderValid(email, plan, payment_method) == IsEmail(email)

\* main.py VerifyAction: action is Literal["verify", "reject"]
VerifyActionValid(action) == action \in {"verify", "reject"}

\* bson.ObjectId(order_id): 0 stands for "raises", otherwise the id denoted.
ObjectId(s) ==
    IF \E i \in 1..MaxOrders : ToString(i) = s
    THEN CHOOSE i \in 1..MaxOrders : ToString(i) = s
    ELSE 0

(* ------------------------------- state -------------------------------- *)
VARIABLES
    app,          \* which application serves: "main" or "backend"
    dbAvailable,  \* database.db is not None
    now,          \* wall clock
    orders,       \* the "order" collection; _id = index
    req,          \* per request slot: handler position, locals, response,
                  \* and history: authed (the request carried an acceptable
                  \* admin token), pre (what the request found on arrival:
                  \* no order, an open or a final one), wrote (its update changed the status), with
                  \* (slots in flight together with it), rep (the status the
                  \* same decision left just before, both made alone), fin (the stored status
                  \* when it returned), asked (the id its order_id denotes),
                  \* creds and login (what it presented), mail (what the
                  \* e-mail transport did), mailed (the status its
                  \* notification named), items (the listing it returned)
    attempts,     \* per order: calls of the e-mail transport (send_email)
    changes,      \* history: per order, status changes into verified/rejected
    lastAdmin,    \* history: the last successful admin decision, made with
                  \* no other request in flight, and nothing else since
    nreq,         \* requests received so far
    issued        \* the token admin_login returned last (the client keeps it)

vars == <<app, dbAvailable, now, orders, req, attempts, changes, lastAdmin, nreq,
          issued>>

NoResp == [code |-> 0, status |-> None, detail |-> None]
NoRow == [oid |-> 0, action |-> None, status |-> None]
NoLogin == [name |-> <<>>, pin |-> <<>>]

IdleReq ==
    [pc |-> "idle", kind |-> "none", oid |-> 0,
     action |-> None, paid |-> None, gstatus |-> None, note |-> None,
     new_status |-> None, resp |-> NoResp, authed |-> FALSE,
     pre |-> None, wrote |-> FALSE, with |-> {}, rep |-> None, fin |-> None,
     asked |-> 0, creds |-> NoCreds, login |-> NoLogin, mail |-> None,
     mailed |-> None, items |-> <<>>]

Ids == 1..Len(orders)
Exists(oid) == oid \in Ids
InFlight(p) == req[p].pc \notin {"idle", "done"}
\* A request is served by the first slot that serves none.
Free(p) ==
    /\ nreq < MaxRequests
    /\ ~InFlight(p)
    /\ \A q \in Procs : q < p => InFlight(q)

Init ==
    /\ app \in {"main", "backend"}
    /\ dbAvailable \in BOOLEAN
    /\ now = 0
    /\ orders = <<>>
    /\ req = [p \in Procs |-> IdleReq]
    /\ attempts = [o \in 1..MaxOrders |-> 0]
    /\ changes = [o \in 1..MaxOrders |-> 0]
    /\ lastAdmin = NoRow
    /\ nreq = 0
    /\ issued = NoCreds

\* Time passes between any two steps.
Tick ==
    /\ now + 1 \in Clock
    /\ now' = now + 1
    /\ UNCHANGED <<app, dbAvailable, issued, orders, req, attempts, changes, lastAdmin, nreq>>

(* ------------------------- history bookkeeping ------------------------ *)
\* Slot p takes request r: record which requests are in flight together, and
\* forget the responses already returned.
Started(p, r) ==
    [q \in Procs |->
        IF q = p THEN [r EXCEPT !.with = {x \in Procs \ {p} : InFlight(x)}]
        ELSE IF InFlight(q) THEN [req[q] EXCEPT !.with = @ \cup {p}]
        ELSE IdleReq]

\* lastAdmin survives only steps of an admin decision on the same order with
\* the same action.
RowKept(kind, oid, action) ==
    IF kind = "admin" /\ lastAdmin.oid = oid /\ lastAdmin.action = action
    THEN lastAdmin ELSE NoRow

RowPrior(oid, action) ==
    IF lastAdmin.oid = oid /\ lastAdmin.action = action /\ oid # 0
    THEN lastAdmin.status ELSE None

\* What a request finds on arrival: no such order, an undecided order
\* ("open") or one already verified or rejected ("final").
Found(coll, oid) ==
    IF oid \notin 1..Len(coll) THEN None
    ELSE IF coll[oid].status \in Terminal THEN "final" ELSE "open"

Bump(f, oid, yes) == IF yes THEN [f EXCEPT ![oid] = @ + 1] ELSE f

(* --------------------------- order store ------------------------------ *)
\* database.create_document: stamps created_at / updated_at and inserts.
create_document(coll, doc, t) ==
    Append(coll, [email |-> doc.email, plan |-> doc.plan,
                  payment_method |-> doc.payment_method,
                  proof_image |-> doc.proof_image, status |-> doc.status,
                  note |-> doc.note, created_at |-> t, updated_at |-> t])

\* Mutant of update_one: the filter is dropped and every document is updated.
update_every(coll, oid, status, note, t) ==
    [i \in 1..Len(coll) |->
        [coll[i] EXCEPT !.status = status, !.updated_at = t,
                        !.note = IF Truthy(note) THEN note ELSE @]]

\* Mutant of update_one: note is always part of the $set.
update_note_always(coll, oid, status, note, t) ==
    IF oid \in 1..Len(coll)
    THEN [coll EXCEPT ![oid] =
            [@ EXCEPT !.status = status, !.updated_at = t, !.note = note]]
    ELSE coll

\* Mutant of update_one: an upsert, which inserts when nothing matches.
update_upsert(coll, oid, status, note, t) ==
    IF oid \in 1..Len(coll)
    THEN [coll EXCEPT ![oid] =
            [@ EXCEPT !.status = status, !.updated_at = t,
                      !.note = IF Truthy(note) THEN note ELSE @]]
    ELSE Append(coll, [email |-> None, plan |-> None, payment_method |-> None,
                       proof_image |-> None, status |-> status, note |-> note,
                       created_at |-> t, updated_at |-> t])

\* coll.update_one({"_id": oid}, {"$set": {status, updated_at[, note]}})
update_one(coll, oid, status, note, t) ==
    IF oid \in 1..Len(coll)
    THEN [coll EXCEPT ![oid] =
            [@ EXCEPT !.status = status, !.updated_at = t,
                      !.note = IF Truthy(note) THEN note ELSE @]]
    ELSE coll

\* Mutant of matched_count: the filter also asks for an undecided order, so a
\* repeated decision matches nothing.
matched_open_count(coll, oid) ==
    IF oid \in 1..Len(coll) /\ coll[oid].status \notin Terminal THEN 1 ELSE 0

\* res.matched_count
matched_count(coll, oid) == IF oid \in 1..Len(coll) THEN 1 ELSE 0

(* --------------------------- authorization ---------------------------- *)
\* main.py require_admin. The 403 is raised inside the try block and
\* HTTPException is an Exception, so the last handler turns it into 401.
require_admin(creds, t) ==
    IF creds.kind = "none"
    THEN [code |-> 401, status |-> None, detail |-> "Not authenticated"]
    ELSE IF creds.kind = "malformed"
    THEN [code |-> 401, status |-> None, detail |-> "Invalid token"]
    ELSE IF creds.exp <= t
    THEN [code |-> 401, status |-> None, detail |-> "Token expired"]
    ELSE IF creds.role # "admin"
    THEN [code |-> 401, status |-> None, detail |-> "Invalid token"]
    ELSE [code |-> 200, status |-> None, detail |-> None]

Err(code, detail) == [code |-> code, status |-> None, detail |-> detail]
Ok(status) == [code |-> 200, status |-> status, detail |-> None]

\* Text is a sequence of pieces, a blank being the piece " ".
ADMIN_NAME == <<"Admin, M.Sadri">>
ADMIN_PIN == <<"200112">>

RECURSIVE lstrip(_)
lstrip(s) == IF s # <<>> /\ Head(s) = " " THEN lstrip(Tail(s)) ELSE s

RECURSIVE rstrip(_)
rstrip(s) ==
    IF s # <<>> /\ s[Len(s)] = " " THEN rstrip(SubSeq(s, 1, Len(s) - 1)) ELSE s

\* str.strip()
strip(s) == rstrip(lstrip(s))

\* Bodies of POST /api/auth/login.
LoginInputs ==
    [name : {ADMIN_NAME, <<" ">> \o ADMIN_NAME \o <<" ">>, <<"Mallory">>},
     pin : {ADMIN_PIN, ADMIN_PIN \o <<" ">>, <<"0000">>, <<>>}]

\* create_jwt(sub, role): exp is ttl_minutes after now.
create_jwt(role, t) == [kind |-> "jwt", role |-> role, exp |-> t + ttl_minutes]

\* admin_login
admin_login(p) ==
    /\ app = "main"
    /\ Free(p)
    /\ \E body \in LoginInputs :
         LET ok == ~(strip(body.name) # ADMIN_NAME \/ strip(body.pin) # ADMIN_PIN)
             token == create_jwt("admin", now)
         IN /\ issued' = IF ok THEN token ELSE issued
            /\ req' = Started(p,
                 [IdleReq EXCEPT !.pc = "done", !.kind = "login", !.login = body,
                     !.creds = IF ok THEN token ELSE NoCreds,
                     !.resp = IF ok THEN Ok(None)
                              ELSE Err(401, "Invalid credentials")])
    /\ nreq' = nreq + 1
    /\ lastAdmin' = NoRow
    /\ UNCHANGED <<app, dbAvailable, now, orders, attempts, changes>>

\* The instants at which AuthSpec looks: the first minutes, and the minutes
\* around the expiry of a token issued in them.
AuthClock ==
    {t \in 0..(ttl_minutes + MaxLate) : t % ttl_minutes <= MaxLate}

\* Time passes to a later instant.
Minute ==
    /\ \E t \in AuthClock : t > now /\ now' = t
    /\ UNCHANGED <<app, dbAvailable, issued, orders, req, attempts, changes,
                   lastAdmin, nreq>>

(* ------------------------ src/main.py handlers ------------------------ *)
InitialStatus(proof_image) == IF Truthy(proof_image) THEN "submitted" ELSE "pending"

main_create_order(p) ==
    /\ app = "main"
    /\ Free(p)
    /\ \E body \in CreateInputs :
         LET valid == OrderCreateValid(body.email, body.plan, body.payment_method)
             st == InitialStatus(body.proof_image)
             doc == [email |-> body.email, plan |-> body.plan,
                     payment_method |-> body.payment_method,
                     proof_image |-> body.proof_image, status |-> st, note |-> None]
             resp == IF ~valid THEN Err(422, "validation")
                     ELSE IF ~dbAvailable THEN Err(500, "Database not available")
                     ELSE Ok(st)
         IN /\ resp.code = 200 => Len(orders) < MaxOrders
            /\ orders' = IF resp.code = 200 THEN create_document(orders, doc, now) ELSE orders
            /\ req' = Started(p, [IdleReq EXCEPT !.pc = "done", !.kind = "create",
                                                 !.resp = resp])
    /\ nreq' = nreq + 1
    /\ lastAdmin' = NoRow
    /\ UNCHANGED <<app, dbAvailable, issued, now, attempts, changes>>

NewStatus(action) == IF action = "verify" THEN "verified" ELSE "rejected"

\* A decision sent with the token the client holds.
HeldInputs ==
    [creds : {issued}, order_id : {"1"}, action : {"verify"}, note : {None}]

main_verify_order(p) ==
    /\ app = "main"
    /\ Free(p)
    /\ \E body \in VerifyInputs \cup HeldInputs :
         LET creds == body.creds
             order_id == body.order_id
             action == body.action
             note == body.note
             auth == require_admin(creds, now)
             oid == ObjectId(order_id)
             new_status == NewStatus(action)
             pre == IF auth.code # 200 THEN auth
                    ELSE IF ~VerifyActionValid(action) THEN Err(422, "validation")
                    ELSE IF order_id = "" THEN Err(400, "order_id required")
                    ELSE IF ~dbAvailable THEN Err(500, "Database not available")
                    ELSE IF oid = 0 THEN Err(400, "Invalid order_id")
                    ELSE Ok(new_status)
             after == IF pre.code = 200
                      THEN update_one(orders, oid, new_status, note, now)
                      ELSE orders
             resp == IF pre.code = 200 /\ matched_count(orders, oid) = 0
                     THEN Err(404, "Order not found") ELSE pre
             hit == resp.code = 200
         IN /\ orders' = after
            /\ changes' = Bump(changes, oid, hit /\ orders[oid].status # new_status)
            /\ req' = Started(p,
                 [IdleReq EXCEPT !.pc = "done", !.kind = "admin",
                     !.oid = IF hit THEN oid ELSE 0,
                     !.new_status = IF hit THEN new_status ELSE None,
                     !.resp = resp, !.authed = auth.code = 200,
                     !.creds = creds, !.asked = oid, !.action = action,
                     !.note = IF hit THEN note ELSE None,
                     !.pre = IF hit THEN Found(orders, oid) ELSE None,
                     !.wrote = hit /\ orders[oid].status # new_status,
                     !.rep = IF auth.code = 200 THEN RowPrior(oid, action) ELSE None,
                     !.fin = IF Exists(oid) THEN after[oid].status ELSE None])
            /\ lastAdmin' = IF hit
                            THEN [oid |-> oid, action |-> action,
                                  status |-> after[oid].status]
                            ELSE NoRow
    /\ nreq' = nreq + 1
    /\ UNCHANGED <<app, dbAvailable, issued, now, attempts>>

\* main.py payment_webhook: a placeholder that only echoes the payload keys.
main_payment_webhook(p) ==
    /\ app = "main"
    /\ Free(p)
    /\ \E body \in WebhookInputs :
         req' = Started(p, [IdleReq EXCEPT !.pc = "done", !.kind = "webhook",
                               !.resp = [code |-> 200, status |-> None,
                                         detail |-> "received"]])
    /\ nreq' = nreq + 1
    /\ lastAdmin' = NoRow
    /\ UNCHANGED <<app, dbAvailable, issued, now, orders, attempts, changes>>

(* -------------------- src/backend/main.py handlers -------------------- *)
\* send_status_email(order): `order` is the re-read document, None when the
\* id matches nothing (order.get then raises and the caller swallows it).
\* TRUE when the dispatcher reaches send_email.
send_status_email(coll, oid) ==
    /\ oid \in 1..Len(coll)
    /\ Truthy(coll[oid].email)

\* What the e-mail transport does with one message: SMTP is not configured,
\* the server takes the message, the server refuses it or cannot be reached,
\* or the message cannot be built.
MailOutcomes == {"unconfigured", "sent", "refused", "raised"}

\* send_email: "True", "False", or "raise" for an exception outside its try.
send_email(m) ==
    IF m = "unconfigured" THEN "False"
    ELSE IF m = "sent" THEN "True"
    ELSE IF m = "refused" THEN "False"
    ELSE "raise"

\* What send_status_email(updated) gives its caller.
status_email_result(coll, oid, m) ==
    IF oid \notin 1..Len(coll) THEN "raise"
    ELSE IF ~Truthy(coll[oid].email) THEN "False"
    ELSE send_email(m)

\* Mutant of try_send_status_email: the exception reaches the client.
send_status_email_unguarded(result, resp) ==
    IF result = "raise" THEN [code |-> 500, status |-> None,
                              detail |-> "Internal Server Error"]
    ELSE resp

\* try: send_status_email(updated) / except Exception: pass, then the return.
try_send_status_email(result, resp) == resp

\* create_order: the client's status wins over the derived one.
BackendInitialStatus(proof_image, status) ==
    IF Truthy(proof_image)
    THEN (IF Truthy(status) THEN status ELSE "submitted")
    ELSE (IF Truthy(status) THEN status ELSE "pending")

backend_create_order(p) ==
    /\ app = "backend"
    /\ Free(p)
    /\ \E body \in CreateInputs :
         LET valid == OrderValid(body.email, body.plan, body.payment_method)
             st == BackendInitialStatus(body.proof_image, body.status)
             doc == [email |-> body.email, plan |-> body.plan,
                     payment_method |-> body.payment_method,
                     proof_image |-> body.proof_image, status |-> st, note |-> None]
             resp == IF ~valid THEN Err(422, "validation")
                     ELSE IF ~dbAvailable THEN Err(500, "Database not available")
                     ELSE Ok(st)
         IN /\ resp.code = 200 => Len(orders) < MaxOrders
            /\ orders' = IF resp.code = 200 THEN create_document(orders, doc, now) ELSE orders
            /\ req' = Started(p, [IdleReq EXCEPT !.pc = "done", !.kind = "create",
                                                 !.resp = resp])
    /\ nreq' = nreq + 1
    /\ lastAdmin' = NoRow
    /\ UNCHANGED <<app, dbAvailable, issued, now, attempts, changes>>

\* verify_order up to its first await that returns a document.
backend_verify_order(p) ==
    /\ app = "backend"
    /\ Free(p)
    /\ \E body \in VerifyInputs :
         LET oid == ObjectId(body.order_id)
             action == body.action
             note == body.note
             resp == IF oid = 0 THEN Err(400, "Invalid order_id")
                     ELSE IF ~dbAvailable THEN Err(500, "Database not available")
                     ELSE IF ~Exists(oid) THEN Err(404, "Order not found")
                     ELSE NoResp
             go == resp = NoResp
         IN /\ req' = Started(p,
                 [IdleReq EXCEPT !.pc = IF go THEN "v_update" ELSE "done",
                     !.kind = "admin", !.oid = IF go THEN oid ELSE 0,
                     !.action = action, !.asked = oid,
                     !.note = IF go THEN note ELSE None, !.resp = resp,
                     !.authed = require_admin(body.creds, now).code = 200,
                     !.rep = IF go \/ (\E q \in Procs : InFlight(q)) THEN None
                             ELSE RowPrior(oid, action),
                     !.fin = IF go \/ ~Exists(oid) THEN None ELSE orders[oid].status,
                     !.pre = IF go THEN Found(orders, oid) ELSE None])
            /\ lastAdmin' = IF go THEN RowKept("admin", oid, action) ELSE NoRow
    /\ nreq' = nreq + 1
    /\ UNCHANGED <<app, dbAvailable, issued, now, orders, attempts, changes>>

\* verify_order: await db["order"].update_one(...)
backend_verify_order_update(p) ==
    /\ req[p].pc = "v_update"
    /\ LET r == req[p]
           new_status == NewStatus(r.action)
           changed == orders[r.oid].status # new_status
       IN /\ orders' = update_one(orders, r.oid, new_status, r.note, now)
          /\ changes' = Bump(changes, r.oid, changed)
          /\ req' = [req EXCEPT ![p].pc = "v_fetch", ![p].new_status = new_status,
                                ![p].wrote = changed]
          /\ lastAdmin' = RowKept("admin", r.oid, r.action)
    /\ UNCHANGED <<app, dbAvailable, issued, now, attempts, nreq>>

\* verify_order: re-read, send_status_email(updated), return. `keep` says
\* whether the history records what the transport did.
verify_order_notify(p, keep) ==
    /\ req[p].pc = "v_fetch"
    /\ \E m \in MailOutcomes :
       LET r == req[p]
           reached == send_status_email(orders, r.oid)
           result == status_email_result(orders, r.oid, m)
       IN /\ attempts' = Bump(attempts, r.oid, reached)
          /\ req' = [req EXCEPT ![p].pc = "done",
                                ![p].resp = try_send_status_email(result, Ok(r.new_status)),
                                ![p].mail = IF keep /\ reached THEN m ELSE None,
                                ![p].mailed = IF reached THEN orders[r.oid].status
                                              ELSE None,
                                ![p].note = None, ![p].action = None,
                                ![p].rep = IF r.with = {}
                                           THEN RowPrior(r.oid, r.action) ELSE None,
                                ![p].fin = orders[r.oid].status]
          /\ lastAdmin' = IF r.with = {}
                          THEN [oid |-> r.oid, action |-> r.action,
                                status |-> orders[r.oid].status]
                          ELSE NoRow
    /\ UNCHANGED <<app, dbAvailable, issued, now, orders, changes, nreq>>

backend_verify_order_notify(p) == verify_order_notify(p, FALSE)
backend_verify_order_notify_logged(p) == verify_order_notify(p, TRUE)

\* Mutant of Paid: the gateway's status key is not consulted.
PaidKeyOnly(paid, gstatus) == JsonTruthy(paid)

\* payment_webhook: paid = payload.get("paid") or payload.get("status") in {...}
Paid(paid, gstatus) ==
    JsonTruthy(paid) \/ gstatus \in {"PAID", "SETTLED", "CAPTURED", "SUCCESS"}

WebhookStatus(paid, gstatus) == IF Paid(paid, gstatus) THEN "verified" ELSE "rejected"

\* payment_webhook up to and including its update_one.
backend_payment_webhook(p) ==
    /\ app = "backend"
    /\ Free(p)
    /\ \E body \in WebhookInputs :
         LET order_id == body.order_id
             paid == body.paid
             gstatus == body.gstatus
             oid == ObjectId(order_id)
             new_status == WebhookStatus(paid, gstatus)
             resp == IF ~Truthy(order_id) THEN Err(400, "order_id missing")
                     ELSE IF oid = 0 THEN Err(400, "Invalid order_id")
                     ELSE IF ~dbAvailable THEN Err(500, "Database not available")
                     ELSE NoResp
             go == resp = NoResp
             changed == go /\ Exists(oid) /\ orders[oid].status # new_status
         IN /\ orders' = IF go THEN update_one(orders, oid, new_status, None, now)
                         ELSE orders
            /\ changes' = Bump(changes, oid, changed)
            /\ req' = Started(p,
                 [IdleReq EXCEPT !.pc = IF go THEN "w_fetch" ELSE "done",
                     !.kind = "webhook", !.oid = IF go THEN oid ELSE 0,
                     !.asked = oid,
                     !.paid = IF go THEN paid ELSE None,
                     !.gstatus = IF go THEN gstatus ELSE None, !.resp = resp,
                     !.new_status = IF go THEN new_status ELSE None,
                     !.pre = IF go THEN Found(orders, oid) ELSE None,
                     !.wrote = changed])
    /\ nreq' = nreq + 1
    /\ lastAdmin' = NoRow
    /\ UNCHANGED <<app, dbAvailable, issued, now, attempts>>

\* payment_webhook: re-read, send_status_email(updated), return.
payment_webhook_notify(p, keep) ==
    /\ req[p].pc = "w_fetch"
    /\ \E m \in MailOutcomes :
       LET r == req[p]
           reached == send_status_email(orders, r.oid)
           result == status_email_result(orders, r.oid, m)
       IN /\ attempts' = Bump(attempts, r.oid, reached)
          /\ req' = [req EXCEPT ![p].pc = "done",
                                ![p].resp = try_send_status_email(result, Ok(r.new_status)),
                                ![p].mail = IF keep /\ reached THEN m ELSE None,
                                ![p].mailed = IF reached THEN orders[r.oid].status
                                              ELSE None,
                                ![p].paid = None, ![p].gstatus = None,
                                ![p].fin = IF Exists(r.oid) THEN orders[r.oid].status
                                           ELSE None]
    /\ lastAdmin' = NoRow
    /\ UNCHANGED <<app, dbAvailable, issued, now, orders, changes, nreq>>

backend_payment_webhook_notify(p) == payment_webhook_notify(p, FALSE)
backend_payment_webhook_notify_logged(p) == payment_webhook_notify(p, TRUE)

(* ------------------------------ listing ------------------------------- *)
\* Query strings of GET /api/orders.
ListInputs == [email : {None, "", "a@b.com", "x@y.com"}, limit : {1, 50}]

Min(a, b) == IF a <= b THEN a ELSE b

\* database.get_documents: the documents matching the filter, at most `limit`,
\* each with its _id.
get_documents(coll, filter_email, limit) ==
    LET all == [i \in 1..Len(coll) |->
                   [id |-> i, email |-> coll[i].email,
                    proof_image |-> coll[i].proof_image, has_proof |-> None]]
        hit(d) == filter_email = None \/ d.email = filter_email
        docs == SelectSeq(all, hit)
    IN SubSeq(docs, 1, Min(limit, Len(docs)))

\* main.py list_orders: blanks the proof_image key of every document.
main_list_orders(p) ==
    /\ app = "main"
    /\ Free(p)
    /\ \E q \in ListInputs :
         LET filter_email == IF Truthy(q.email) THEN q.email ELSE None
             docs == get_documents(orders, filter_email, q.limit)
             items == [i \in 1..Len(docs) |-> [docs[i] EXCEPT !.proof_image = None]]
         IN req' = Started(p,
               [IdleReq EXCEPT !.pc = "done", !.kind = "list",
                   !.resp = IF dbAvailable THEN Ok(None)
                            ELSE Err(500, "Database not available"),
                   !.items = IF dbAvailable THEN items ELSE <<>>])
    /\ nreq' = nreq + 1
    /\ lastAdmin' = NoRow
    /\ UNCHANGED <<app, dbAvailable, issued, now, orders, attempts, changes>>

\* backend list_orders: a document with a truthy proof_image gets has_proof
\* and a blank proof_image; any other document is returned as stored.
backend_list_orders(p) ==
    /\ app = "backend"
    /\ Free(p)
    /\ \E q \in ListInputs :
         LET filter_email == IF Truthy(q.email) THEN q.email ELSE None
             docs == get_documents(orders, filter_email, q.limit)
             items == [i \in 1..Len(docs) |->
                         IF Truthy(docs[i].proof_image)
                         THEN [docs[i] EXCEPT !.has_proof = "true",
                                              !.proof_image = None]
                         ELSE docs[i]]
         IN req' = Started(p,
               [IdleReq EXCEPT !.pc = "done", !.kind = "list",
                   !.resp = IF dbAvailable THEN Ok(None)
                            ELSE Err(500, "Database not available"),
                   !.items = IF dbAvailable THEN items ELSE <<>>])
    /\ nreq' = nreq + 1
    /\ lastAdmin' = NoRow
    /\ UNCHANGED <<app, dbAvailable, issued, now, orders, attempts, changes>>

(* ---------------------------- specification --------------------------- *)
Next ==
    \/ Tick
    \/ \E p \in Procs : main_create_order(p)
    \/ \E p \in Procs : main_verify_order(p)
    \/ \E p \in Procs : main_payment_webhook(p)
    \/ \E p \in Procs : backend_create_order(p)
    \/ \E p \in Procs : backend_verify_order(p)
    \/ \E p \in Procs : backend_verify_order_update(p)
    \/ \E p \in Procs : backend_verify_order_notify(p)
    \/ \E p \in Procs : backend_payment_webhook(p)
    \/ \E p \in Procs : backend_payment_webhook_notify(p)

Spec == Init /\ [][Next]_vars

\* The order listing: orders are created and listed.
ListNext ==
    \/ Tick
    \/ \E p \in Procs : main_create_order(p)
    \/ \E p \in Procs : backend_create_order(p)
    \/ \E p \in Procs : main_list_orders(p)
    \/ \E p \in Procs : backend_list_orders(p)

ListSpec == Init /\ [][ListNext]_vars

\* The decisions of the backend with the e-mail transport's outcome kept in
\* the history, at one instant.
MailInit == Init /\ app = "backend" /\ dbAvailable

MailNext ==
    \/ \E p \in Procs : backend_create_order(p)
    \/ \E p \in Procs : backend_verify_order(p)
    \/ \E p \in Procs : backend_verify_order_update(p)
    \/ \E p \in Procs : backend_verify_order_notify_logged(p)
    \/ \E p \in Procs : backend_payment_webhook(p)
    \/ \E p \in Procs : backend_payment_webhook_notify_logged(p)

MailSpec == MailInit /\ [][MailNext]_vars

\* Authentication in main.py: logins and guarded decisions over the lifetime
\* of a token, on an empty store.
AuthInit == Init /\ app = "main"

AuthNext ==
    \/ Minute
    \/ \E p \in Procs : admin_login(p)
    \/ \E p \in Procs : main_verify_order(p)

AuthSpec == AuthInit /\ [][AuthNext]_vars

TypeOK ==
    /\ app \in {"main", "backend"}
    /\ now \in 0..(ttl_minutes + MaxLate)
    /\ Len(orders) <= MaxOrders
    /\ nreq \in 0..MaxRequests

(* ------------------------------- claims ------------------------------- *)
\* Slot p took this step: it received a request or moved on in its handler.
Acted(p) ==
    \/ nreq' = nreq + 1 /\ Free(p)
    \/ InFlight(p) /\ req'[p].pc # req[p].pc

Decision(r) == r.kind \in {"admin", "webhook"}
Quiet == \A p \in Procs : ~InFlight(p)

\* C1: once an order's status is verified or rejected, no step changes it to
\* a different status.
C1_TerminalIsFinal ==
    [][\A o \in Ids :
          orders[o].status \in Terminal => orders'[o].status = orders[o].status]_vars

\* C2: an admin decision that carries no valid, unexpired, admin-role token
\* ends at once with an error response and writes nothing to the store.
C2_UnauthorizedWritesNothing ==
    [][\A p \in Procs :
          (Acted(p) /\ req'[p].kind = "admin" /\ ~req'[p].authed)
          => /\ orders' = orders
             /\ req'[p].pc = "done"
             /\ req'[p].resp.code \notin {0, 200}]_vars

\* C3: an accepted creation stores and returns submitted when the request's
\* proof_image is non-empty and pending otherwise, whatever else it carries.
C3_InitialStatusFromProof ==
    [][Len(orders') = Len(orders) + 1
       => LET o == orders'[Len(orders')]
              st == IF o.proof_image \notin {None, ""} THEN "submitted" ELSE "pending"
          IN /\ o.status = st
             /\ \A p \in Procs : Acted(p) => req'[p].resp.status = st]_vars

\* C4: an authorized admin decision repeated right after the same decision
\* succeeded returns success and leaves the status that decision had left.
C4_RepeatedDecisionIdempotent ==
    \A p \in Procs :
        (req[p].kind = "admin" /\ req[p].pc = "done" /\ req[p].rep # None)
        => /\ req[p].resp.code = 200
           /\ req[p].fin = req[p].rep
           /\ req[p].resp.status = req[p].rep

\* C4 happens: a reject repeated right after a reject has returned.
C4_Witness ==
    \E p \in Procs :
        /\ req[p].kind = "admin" /\ req[p].pc = "done"
        /\ req[p].rep = "rejected" /\ req[p].fin = "rejected"
        /\ req[p].resp.code = 200 /\ ~req[p].wrote

\* C5: once every request has returned, each order has had as many
\* notification attempts as status changes into verified or rejected.
C5_OneAttemptPerTransition ==
    Quiet => \A o \in 1..MaxOrders : attempts[o] = changes[o]

\* C6 as stated: the webhook's update sets verified when the paid key is
\* truthy and rejected when it is falsy or absent, whatever else is sent.
C6_PaidKeyAloneDecides ==
    [][\A p \in Procs :
          (Acted(p) /\ req'[p].pc = "w_fetch" /\ Exists(req'[p].oid))
          => orders'[req'[p].oid].status =
                IF JsonTruthy(req'[p].paid) THEN "verified" ELSE "rejected"]_vars

\* C6 amended: the webhook's update sets verified when the paid key is truthy
\* or the status key is PAID, SETTLED, CAPTURED or SUCCESS, else rejected.
C6_PaidOrSettledDecides ==
    [][\A p \in Procs :
          (Acted(p) /\ req'[p].pc = "w_fetch" /\ Exists(req'[p].oid))
          => orders'[req'[p].oid].status =
                IF \/ JsonTruthy(req'[p].paid)
                   \/ req'[p].gstatus \in {"PAID", "SETTLED", "CAPTURED", "SUCCESS"}
                THEN "verified" ELSE "rejected"]_vars

\* C6 happens: an event with paid false and status PAID has just verified an
\* undecided order.
C6_Witness ==
    \E p \in Procs :
        /\ req[p].pc = "w_fetch" /\ Exists(req[p].oid)
        /\ req[p].paid = "false" /\ req[p].gstatus = "PAID"
        /\ req[p].pre = "open" /\ req[p].wrote
        /\ orders[req[p].oid].status = "verified"

\* C7: a webhook event for an order already verified or rejected changes
\* nothing in the store, whether it repeats or contradicts the outcome, and
\* attempts no notification.
C7_WebhookRepeatable ==
    [][\A p \in Procs :
          /\ (Acted(p) /\ req'[p].pc = "w_fetch" /\ req'[p].pre = "final")
             => orders' = orders
          /\ (Acted(p) /\ req[p].pc = "w_fetch" /\ req[p].pre = "final")
             => attempts' = attempts]_vars

\* C8: of two decisions with opposite targets in flight together on one
\* order that neither found terminal, at most one changes the status and at
\* most one returns success.
C8_AtMostOneDecisionWins ==
    \A p, q \in Procs :
        (/\ p # q /\ q \in req[p].with /\ p \in req[q].with
         /\ Decision(req[p]) /\ Decision(req[q])
         /\ req[p].oid # 0 /\ req[p].oid = req[q].oid
         /\ req[p].pre = "open" /\ req[q].pre = "open"
         /\ req[p].new_status # None /\ req[q].new_status # None
         /\ req[p].new_status # req[q].new_status)
        => /\ ~(req[p].wrote /\ req[q].wrote)
           /\ ~(req[p].resp.code = 200 /\ req[q].resp.code = 200)

\* C9: every stored order's status is one of pending, submitted, queued,
\* verified, rejected.
C9_StatusInDomain == \A o \in Ids : orders[o].status \in StatusDomain

\* C10: no step changes the email, plan, payment_method, proof_image or
\* created_at of a stored order; a decision neither adds an order nor
\* changes any order but the one it names.
Frame(o) == <<o.email, o.plan, o.payment_method, o.proof_image, o.created_at>>

C10_DecisionFrame ==
    [][/\ \A o \in Ids : Frame(orders'[o]) = Frame(orders[o])
       /\ \A p \in Procs :
            (Acted(p) /\ Decision(req'[p]))
            => /\ Len(orders') = Len(orders)
               /\ \A o \in Ids : o # req'[p].oid => orders'[o] = orders[o]]_vars

\* C10 happens: with two orders stored, a decision with a note has verified
\* the first at a later instant and left the second as created.
C10_Witness ==
    /\ Len(orders) = 2
    /\ orders[1].proof_image = "img"
    /\ orders[1].status = "verified"
    /\ orders[1].note = "n1"
    /\ orders[1].updated_at > orders[1].created_at
    /\ orders[2].status = "pending"
    /\ \E p \in Procs : req[p].pc = "done" /\ req[p].kind = "admin" /\ req[p].oid = 1

\* C11: every item of a listing carries no proof image, and has_proof true
\* exactly when the stored order has a non-empty proof image.
C11_ListingRedacted ==
    \A p \in Procs :
        (req[p].kind = "list" /\ req[p].pc = "done")
        => \A i \in 1..Len(req[p].items) :
              LET item == req[p].items[i]
              IN /\ item.proof_image \in {None, ""}
                 /\ (item.has_proof = "true") <=>
                        (orders[item.id].proof_image \notin {None, ""})

\* C12: whatever the e-mail transport does with the notification that
\* follows a decision, the request returns the success response of its
\* decision and the store is left as the update committed it.
C12_MailFailureHarmless ==
    [][\A p \in Procs :
          (Acted(p) /\ req[p].pc \in {"v_fetch", "w_fetch"})
          => /\ orders' = orders
             /\ req'[p].pc = "done"
             /\ req'[p].resp = Ok(req[p].new_status)]_vars

\* C12 happens: a decision whose notification could not be built has
\* returned success, and the order has the status it set.
C12_Witness ==
    \E p \in Procs :
        /\ req[p].pc = "done" /\ Decision(req[p]) /\ req[p].mail = "raised"
        /\ req[p].resp = Ok(req[p].new_status)
        /\ Exists(req[p].oid) /\ orders[req[p].oid].status = req[p].new_status

\* C13: require_admin answers no credential with 401, an expired token with
\* 401 (expired), an unexpired token of another role with 403, an
\* unverifiable token with 401, and accepts an unexpired admin token and
\* nothing else.
C13_GateClassifies ==
    [][\A p \in Procs :
          (Acted(p) /\ app = "main" /\ req'[p].kind = "admin")
          => LET c == req'[p].creds
                 r == req'[p].resp
             IN /\ c.kind = "none" => r.code = 401
                /\ c.kind = "malformed" => r.code = 401
                /\ (c.kind = "jwt" /\ now > c.exp)
                   => (r.code = 401 /\ r.detail = "Token expired")
                /\ (c.kind = "jwt" /\ now < c.exp /\ c.role # "admin")
                   => r.code = 403
                /\ (c.kind = "jwt" /\ now < c.exp /\ c.role = "admin")
                   => (req'[p].authed /\ r.code \notin {401, 403})
                /\ req'[p].authed
                   => (c.kind = "jwt" /\ c.role = "admin" /\ now <= c.exp)]_vars

\* C19: admin_login gives a token exactly when name and pin equal the
\* configured ones, and 401 with no token otherwise; the token has role
\* admin and expires ttl_minutes later; require_admin accepts it before its
\* expiry and answers 401 (expired) after it.
C19_LoginExactAndTokenLifetime ==
    [][\A p \in Procs :
          Acted(p)
          => /\ req'[p].kind = "login"
                => IF /\ req'[p].login.name = ADMIN_NAME
                      /\ req'[p].login.pin = ADMIN_PIN
                   THEN /\ req'[p].resp.code = 200
                        /\ req'[p].creds = [kind |-> "jwt", role |-> "admin",
                                            exp |-> now + ttl_minutes]
                        /\ issued' = req'[p].creds
                   ELSE /\ req'[p].resp.code = 401
                        /\ req'[p].creds = NoCreds
                        /\ issued' = issued
             /\ (req'[p].kind = "admin" /\ app = "main"
                 /\ issued.kind = "jwt" /\ req'[p].creds = issued)
                => /\ now < issued.exp => req'[p].authed
                   /\ now > issued.exp
                      => req'[p].resp = Err(401, "Token expired")]_vars

\* C14: a webhook event of the backend whose well-formed order_id matched
\* no stored order has failed with 404, named no status, and attempted no
\* notification.
C14_WebhookUnknownOrder ==
    \A p \in Procs :
        (/\ app = "backend" /\ req[p].kind = "webhook" /\ req[p].pc = "done"
         /\ req[p].asked # 0 /\ req[p].oid = req[p].asked /\ req[p].pre = None)
        => /\ req[p].resp.code = 404
           /\ req[p].resp.status = None
           /\ req[p].mailed = None

\* C15: an authorized admin decision whose well-formed order_id matches no
\* stored order returns 404 at once, leaves the store as it was and attempts
\* no notification.
C15_DecisionUnknownOrder ==
    [][\A p \in Procs :
          (/\ Acted(p) /\ req'[p].kind = "admin" /\ req'[p].authed
           /\ dbAvailable /\ req'[p].action \in {"verify", "reject"}
           /\ req'[p].asked # 0 /\ ~Exists(req'[p].asked))
          => /\ req'[p].pc = "done"
             /\ req'[p].resp = Err(404, "Order not found")
             /\ orders' = orders
             /\ attempts' = attempts]_vars

\* C15 happens: with one order stored, an authorized decision on the id of
\* no order has returned 404.
C15_Witness ==
    \E p \in Procs :
        /\ req[p].kind = "admin" /\ req[p].pc = "done" /\ req[p].authed
        /\ req[p].action = "reject"
        /\ Len(orders) = 1 /\ req[p].asked = 2
        /\ req[p].resp.code = 404

\* C16: the status named by the notification of a decision on a stored order
\* is the status that decision's response returns, whatever other decisions
\* run meanwhile.
C16_NotificationNamesOwnStatus ==
    \A p \in Procs :
        (/\ Decision(req[p]) /\ req[p].pc = "done"
         /\ req[p].pre # None /\ req[p].mailed # None)
        => req[p].mailed = req[p].resp.status

\* C17: the update of an admin decision on an order whose status is already
\* the status that decision sets leaves the order as it was: status, note
\* and updated_at.
C17_RepeatedDecisionChangesNothing ==
    [][\A p \in Procs :
          (/\ Acted(p) /\ req'[p].kind = "admin" /\ req'[p].authed
           /\ req'[p].oid # 0 /\ Exists(req'[p].oid)
           /\ req'[p].new_status \in Terminal
           /\ orders[req'[p].oid].status = req'[p].new_status)
          => orders'[req'[p].oid] = orders[req'[p].oid]]_vars

\* C18: no creation stores an order whose plan is outside ebook, kelas,
\* template or whose payment_method is outside DANA, OVO, GOPAY, BRI.
C18_ClosedSetsOnCreate ==
    [][Len(orders') = Len(orders) + 1
       => /\ orders'[Len(orders')].plan \in {"ebook", "kelas", "template"}
          /\ orders'[Len(orders')].payment_method
                \in {"DANA", "OVO", "GOPAY", "BRI"}]_vars

\* C20: the update of an admin decision sets the order's note to the
\* decision's note when that is non-empty and keeps the stored note otherwise;
\* no step other than the update of an admin decision on an order changes
\* that order's note.
Updated(p) ==
    /\ Acted(p)
    /\ req'[p].kind = "admin"
    /\ req'[p].oid # 0
    /\ \/ req'[p].pc = "v_fetch"
       \/ app = "main" /\ req'[p].resp.code = 200

C20_NoteOnlyFromDecision ==
    [][/\ \A p \in Procs :
            Updated(p)
            => orders'[req'[p].oid].note =
                  IF req'[p].note \notin {None, ""} THEN req'[p].note
                  ELSE orders[req'[p].oid].note
       /\ \A o \in Ids :
            orders'[o].note # orders[o].note
            => \E p \in Procs : Updated(p) /\ req'[p].oid = o]_vars

\* C20 happens: a decision with an empty note has updated an order whose
\* note an earlier decision had set, and the note is still there.
C20_Witness ==
    \E p \in Procs :
        /\ req[p].kind = "admin" /\ req[p].oid # 0 /\ req[p].note = ""
        /\ \/ req[p].pc = "v_fetch"
           \/ req[p].pc = "done" /\ req[p].resp.code = 200
        /\ Exists(req[p].oid) /\ orders[req[p].oid].note = "n1"

====
